---- MODULE Spec2Model ----
(***************************************************************************)
(* A model of FunPayCardinal's listing-raise workflow                      *)
(* (FunPayAPI/account.py, Account.raise_game_categories) and of the        *)
(* ordered handler dispatch that drives handlers.py.                       *)
(*                                                                         *)
(* JSON values of the marketplace's answers are kept as tagged strings and *)
(* records, so that Python's truthiness and "is None" tests are computed,  *)
(* not assumed.  Message texts are sequences of words; the Russian words   *)
(* are transliterated: "Podozhdite" stands for the cooldown notice.        *)
(***************************************************************************)
EXTENDS Integers, Sequences, FiniteSets, TLC

----------------------------------------------------------------------------
(* Bounds of the model *)

\* the longest modal (number of checkboxes) the marketplace answers with
MaxModal == 2

\* the most notification threads alive at once
MaxInFlight == 2

\* the most flags by which a configuration differs from all on, or from all off
MaxDeviation == 1

----------------------------------------------------------------------------
(* JSON values of a raise response *)

\* the values of the "error" key: the key missing, null, false, 0, true, 1
ErrorValues == {"absent", "null", "false", "0", "true", "1"}

\* Python: bool(v) for a value of ErrorValues (dict.get gives None if absent)
Truthy(v) == v \in {"true", "1"}

\* Python: dict.get(key) is None, for a missing key and for a JSON null
IsNone(v) == v \in {"absent", "null"}

\* the word of a message FunPay answers with while a raise is on cooldown
CooldownNotice == "Podozhdite"

\* the "msg" key: missing, or a text (a sequence of words, <<>> the empty text)
NoMsg == [present |-> FALSE, words |-> <<>>]

Text(ws) == [present |-> TRUE, words |-> ws]

Msg45 == Text(<<CooldownNotice, "45", "sekund">>)

Msg3600 == Text(<<CooldownNotice, "3600", "sekund">>)

Msg2Min == Text(<<"Oshibka.", CooldownNotice, "2", "minuty">>)

MsgOther == Text(<<"Oshibka", "5", "sekund">>)

MsgEmpty == Text(<<>>)

MsgValues == {NoMsg, MsgEmpty, MsgOther, Msg45, Msg3600, Msg2Min}

\* Python: bool(check.get("msg"))
MsgTruthy(m) == m.present /\ m.words # <<>>

\* Python: "Подождите" in check.get("msg")
ContainsNotice(m) == \E i \in 1..Len(m.words) : m.words[i] = CooldownNotice

\* the ids and labels of the categories a modal may list
CategoryIds == {"c1", "c2", "c3"}

CategoryLabel(id) ==
    CASE id = "c1" -> "Gold"
      [] id = "c2" -> "Accounts"
      [] id = "c3" -> "Items"

\* one <div class="checkbox"> of the modal: its input's value, its label's text
Checkbox(id) == [value |-> id, label |-> CategoryLabel(id)]

RECURSIVE SeqsUpTo(_, _)
SeqsUpTo(S, n) ==
    IF n = 0 THEN {<<>>}
    ELSE LET shorter == SeqsUpTo(S, n - 1)
         IN  shorter \cup {Append(s, x) : s \in shorter, x \in S}

\* the "modal" key: missing, the empty string, or an HTML fragment with checkboxes
NoModal == [kind |-> "absent", checkboxes |-> <<>>]

EmptyModal == [kind |-> "empty", checkboxes |-> <<>>]

Html(cbs) == [kind |-> "html", checkboxes |-> cbs]

ModalValues ==
    {NoModal, EmptyModal}
        \cup {Html(cbs) : cbs \in SeqsUpTo({Checkbox(id) : id \in CategoryIds}, MaxModal)}

\* Python: bool(check.get("modal"))
ModalTruthy(m) == m.kind = "html"

\* the answers to the first raise request
RaiseResponses == [error : ErrorValues, msg : MsgValues, modal : ModalValues]

\* the answers to the submission of the modal
SubmitResponses == [error : ErrorValues, msg : {NoMsg, MsgOther}, modal : {NoModal}]

NoResponse == [error |-> "absent", msg |-> NoMsg, modal |-> NoModal]

\* the categories raise_game_categories is called with (game_id resolved)
Categories ==
    { [id |-> "c1", game_id |-> "g1", title |-> "Gold"],
      [id |-> "c2", game_id |-> "g1", title |-> "Accounts"] }

NoCategory == [id |-> "", game_id |-> "", title |-> ""]

\* the exclude argument: None, or a list of category ids
ExcludeNone == [isNone |-> TRUE, items |-> {}]

ExcludeList(S) == [isNone |-> FALSE, items |-> S]

ExcludeValues == {ExcludeNone} \cup {ExcludeList(S) : S \in SUBSET CategoryIds}

----------------------------------------------------------------------------
(* get_wait_time_from_raise_response (FunPayAPI/other.py) *)

IsNumber(w) == w \in {"2", "5", "45", "3600"}

ParseInt(w) ==
    CASE w = "2" -> 2
      [] w = "5" -> 5
      [] w = "45" -> 45
      [] w = "3600" -> 3600
      [] OTHER -> 0

UnitSeconds(w) ==
    CASE w = "sekund" -> 1
      [] w = "minuty" -> 60
      [] w = "chas" -> 3600
      [] OTHER -> 1

\* the duration, in seconds, of the first "<number> <unit>" of the text
RECURSIVE WaitFrom(_, _)
WaitFrom(ws, i) ==
    IF i > Len(ws) THEN 10
    ELSE IF IsNumber(ws[i])
         THEN ParseInt(ws[i]) * (IF i < Len(ws) THEN UnitSeconds(ws[i + 1]) ELSE 1)
         ELSE WaitFrom(ws, i + 1)

get_wait_time_from_raise_response(m) == WaitFrom(m.words, 1)

----------------------------------------------------------------------------
(* Account.raise_game_categories (FunPayAPI/account.py) *)

VARIABLES
    rstate,          \* where the raise attempt stands
    category,        \* the category argument
    exclude,         \* the exclude argument
    check,           \* the answer to request_lots_raise
    response,        \* the answer to the submission of the modal
    category_ids,    \* the ids collected from the modal
    category_names,  \* the names collected from the modal
    requests,        \* the POSTs to Links.RAISE made by this attempt, in order
    ret              \* what the call gave back to its caller

raiseVars ==
    <<rstate, category, exclude, check, response, category_ids, category_names,
      requests, ret>>

\* the state of the dispatch of events (handlers.py)
VARIABLES
    loop,           \* the polling loop: "running", or "crashed" by an exception
    stack,          \* the dispatches in progress, the innermost last
    finished,       \* the dispatch that returned last
    contained,      \* whether some dispatch so far caught a handler's exception
    main_config,    \* cardinal.main_config, and whether cardinal.telegram is set
    plugins,        \* whether plugins/example_plugin.py is loaded
    log,            \* what the handlers of the current event did, in order
    products,       \* the products file of the delivery configuration
    inflight,       \* the notification threads that have not ended
    delivery        \* what deliver_product did for the order of the current event

dispatchVars ==
    <<loop, stack, finished, contained, main_config, plugins, log, products,
      inflight, delivery>>

\* a POST to Links.RAISE: the first carries no "node_ids[]"
RaiseRequest(c) ==
    [game_id |-> c.game_id, node_id |-> c.id, has_node_ids |-> FALSE, node_ids |-> <<>>]

SubmitRequest(c, ids) ==
    [game_id |-> c.game_id, node_id |-> c.id, has_node_ids |-> TRUE, node_ids |-> ids]

\* the RaiseCategoriesResponse dictionary
Outcome(complete, wait, names, resp) ==
    [complete |-> complete, wait |-> wait, raised_category_names |-> names,
     response |-> resp]

NoOutcome == Outcome(FALSE, 0, <<>>, NoResponse)

\* what a call gives back: nothing yet, a dictionary, None, or an exception
Pending == [kind |-> "pending", value |-> NoOutcome]

Returned(o) == [kind |-> "dict", value |-> o]

ReturnedNone == [kind |-> "None", value |-> NoOutcome]

Raised == [kind |-> "raise", value |-> NoOutcome]

\* IsCooldown without the test for the notice
IsCooldownAnyMessage(chk) == Truthy(chk.error) /\ MsgTruthy(chk.msg)

\* line 256: the first condition of the chain
IsCooldown(chk) == Truthy(chk.error) /\ MsgTruthy(chk.msg) /\ ContainsNotice(chk.msg)

\* line 259
IsErrored(chk) == Truthy(chk.error)

\* line 262
IsAutoRaised(chk) == ~IsNone(chk.error) /\ ~Truthy(chk.error)

\* IsModal of a workflow that takes every remaining answer for a modal
IsModalAnyAnswer(chk) == TRUE

\* line 265
IsModal(chk) == ModalTruthy(chk.modal)

\* the if / elif chain of lines 256-265: the first condition that holds wins
Branch(chk) ==
    IF IsCooldown(chk) THEN "CooldownRejected"
    ELSE IF IsErrored(chk) THEN "Errored"
    ELSE IF IsAutoRaised(chk) THEN "SingleCategoryAutoRaised"
    ELSE IF IsModal(chk) THEN "ModalPresented"
    ELSE "NoBranch"

\* CooldownOutcome with the fallback wait instead of the parsed one
CooldownOutcomeFixedWait(chk) == Outcome(FALSE, 10, <<>>, chk)

\* line 257-258
CooldownOutcome(chk) ==
    Outcome(FALSE, get_wait_time_from_raise_response(chk.msg), <<>>, chk)

\* line 261
ErroredOutcome(chk) == Outcome(FALSE, 10, <<>>, chk)

\* AutoRaisedOutcome without the category's title
AutoRaisedOutcomeNoTitle(chk, c) == Outcome(TRUE, 3600, <<>>, chk)

\* line 264
AutoRaisedOutcome(chk, c) == Outcome(TRUE, 3600, <<c.title>>, chk)

\* KeepCheckbox without the case exclude is None
KeepCheckboxListOnly(category_id, excl) ==
    ~excl.isNone /\ category_id \notin excl.items

\* line 274: whether the checkbox with this value is collected
KeepCheckbox(category_id, excl) ==
    (~excl.isNone /\ category_id \notin excl.items) \/ excl.isNone

\* lines 269-277: the loop over the checkboxes, from checkbox i on
RECURSIVE CollectFrom(_, _, _, _)
CollectFrom(checkboxes, excl, i, acc) ==
    IF i > Len(checkboxes) THEN acc
    ELSE LET cb == checkboxes[i]
         IN  IF KeepCheckbox(cb.value, excl)
             THEN CollectFrom(checkboxes, excl, i + 1,
                              [ids |-> Append(acc.ids, cb.value),
                               names |-> Append(acc.names, cb.label)])
             ELSE CollectFrom(checkboxes, excl, i + 1, acc)

Collect(modal, excl) ==
    CollectFrom(modal.checkboxes, excl, 1, [ids |-> <<>>, names |-> <<>>])

\* SubmitOutcome asking for an explicit no-error marker, as line 262 does
SubmitOutcomeExplicit(resp, names) ==
    IF ~IsNone(resp.error) /\ ~Truthy(resp.error)
    THEN Outcome(TRUE, 3600, names, resp)
    ELSE Outcome(FALSE, 10, <<>>, resp)

\* SubmitOutcome keeping the collected names when the submission failed
SubmitOutcomeKeepsNames(resp, names) ==
    IF ~Truthy(resp.error)
    THEN Outcome(TRUE, 3600, names, resp)
    ELSE Outcome(FALSE, 10, names, resp)

\* lines 291-294
SubmitOutcome(resp, names) ==
    IF ~Truthy(resp.error)
    THEN Outcome(TRUE, 3600, names, resp)
    ELSE Outcome(FALSE, 10, <<>>, resp)

RaiseInit ==
    /\ rstate = "Idle"
    /\ category = NoCategory
    /\ exclude = ExcludeNone
    /\ check = NoResponse
    /\ response = NoResponse
    /\ category_ids = <<>>
    /\ category_names = <<>>
    /\ requests = <<>>
    /\ ret = Pending

\* the call: request_lots_raise posts the first request (line 238)
RaiseCall(c, excl) ==
    /\ rstate = "Idle"
    /\ rstate' = "Requesting"
    /\ category' = c
    /\ exclude' = excl
    /\ requests' = <<RaiseRequest(c)>>
    /\ UNCHANGED <<check, response, category_ids, category_names, ret>>
    /\ UNCHANGED dispatchVars

\* lines 238-240: the POST fails, or its status is not 200: the exception leaves
\* request_lots_raise and raise_game_categories
RequestFails ==
    /\ rstate = "Requesting"
    /\ rstate' = "Raised"
    /\ ret' = Raised
    /\ UNCHANGED <<category, exclude, check, response, category_ids, category_names,
                   requests>>
    /\ UNCHANGED dispatchVars

\* lines 241-290: the answer arrives and the chain is evaluated; in the modal
\* branch the checkboxes are collected and the second request is posted
RequestResponds(chk) ==
    /\ rstate = "Requesting"
    /\ check' = chk
    /\ LET b == Branch(chk)
           got == Collect(chk.modal, exclude)
       IN  /\ rstate' = b
           /\ ret' = CASE b = "CooldownRejected" -> Returned(CooldownOutcome(chk))
                       [] b = "Errored" -> Returned(ErroredOutcome(chk))
                       [] b = "SingleCategoryAutoRaised" ->
                              Returned(AutoRaisedOutcome(chk, category))
                       [] b = "ModalPresented" -> Pending
                       [] OTHER -> ReturnedNone
           /\ IF b = "ModalPresented"
              THEN /\ category_ids' = got.ids
                   /\ category_names' = got.names
                   /\ requests' = Append(requests, SubmitRequest(category, got.ids))
              ELSE UNCHANGED <<category_ids, category_names, requests>>
    /\ UNCHANGED <<category, exclude, response>>
    /\ UNCHANGED dispatchVars

\* line 290: the submission's POST or its .json() fails
SubmitFails ==
    /\ rstate = "ModalPresented"
    /\ rstate' = "Raised"
    /\ ret' = Raised
    /\ UNCHANGED <<category, exclude, check, response, category_ids, category_names,
                   requests>>
    /\ UNCHANGED dispatchVars

\* lines 290-294: the submission is answered
SubmitResponds(resp) ==
    /\ rstate = "ModalPresented"
    /\ rstate' = "ModalSubmitted"
    /\ response' = resp
    /\ ret' = Returned(SubmitOutcome(resp, category_names))
    /\ UNCHANGED <<category, exclude, check, category_ids, category_names, requests>>
    /\ UNCHANGED dispatchVars

\* the caller has the result; the next attempt starts from scratch
RaiseDone ==
    /\ ret.kind # "pending"
    /\ rstate' = "Idle"
    /\ category' = NoCategory
    /\ exclude' = ExcludeNone
    /\ check' = NoResponse
    /\ response' = NoResponse
    /\ category_ids' = <<>>
    /\ category_names' = <<>>
    /\ requests' = <<>>
    /\ ret' = Pending
    /\ UNCHANGED dispatchVars

NextRaise ==
    \/ \E c \in Categories, excl \in ExcludeValues : RaiseCall(c, excl)
    \/ RequestFails
    \/ \E chk \in RaiseResponses : RequestResponds(chk)
    \/ SubmitFails
    \/ \E resp \in SubmitResponses : SubmitResponds(resp)
    \/ RaiseDone

----------------------------------------------------------------------------
(* The events, the configuration and the handler registry (handlers.py) *)

\* a text of a chat message: a word, possibly in upper case, possibly padded
\* with white space
Str(w, up, pad) == [word |-> w, upper |-> up, padded |-> pad]

\* Python: str.strip()
Strip(t) == [t EXCEPT !.padded = FALSE]

\* Python: str.lower()
Lower(t) == [t EXCEPT !.upper = FALSE]

\* the commands of cardinal.auto_response_config and what a buyer may also write
Commands == {"!help", "!price", "!info"}

Words == Commands \cup {"hello"}

\* the sections of auto_response_config are keyed by the command as written
AutoResponseKeys == {Str(w, FALSE, FALSE) : w \in Commands}

\* the options of a command's section ("none": the option is missing)
CommandOption(key, option) ==
    CASE option = "telegramNotification" ->
             (CASE key.word = "!help" -> "1"
                [] key.word = "!info" -> "0"
                [] OTHER -> "none")
      [] option = "notificationText" ->
             (CASE key.word = "!help" -> "none"
                [] OTHER -> "custom")
      [] OTHER -> "none"

\* the MessageEvent values the runner produces
Messages ==
    { [node_id |-> "n1", message_text |-> Str(w, up, pad), sender_username |-> "buyer"] :
        w \in Words, up \in BOOLEAN, pad \in BOOLEAN }

\* the positional arguments of a handler call
MsgArg(m) == [msg |-> m]

OrderArg(o) == [order |-> o]

EventArg == [event |-> "OrderEvent"]

CardinalArg == [cardinal |-> "cardinal"]

TextArg(t) == [text |-> t]

BoolArg(b) == [bool |-> b]

GameArg(g) == [game_id |-> g]

NamesArg(ns) == [names |-> ns]

WaitArg(w) == [wait_time |-> w]

\* the handler lists of handlers.py, lines 326-347
REGISTER_TO_NEW_MESSAGE_EVENT ==
    <<"log_msg_handler", "send_response_handler", "send_command_notification_handler">>

REGISTER_TO_RAISE_EVENT == <<"send_categories_raised_notification_handler">>

REGISTER_TO_ORDERS_UPDATE_EVENT == <<"updates_lots_state_handler">>

REGISTER_TO_NEW_ORDER_EVENT ==
    <<"send_new_order_notification_handler", "delivery_product_handler">>

REGISTER_TO_DELIVERY_EVENT == <<"send_delivery_notification_handler">>

\* the handler lists of plugins/example_plugin.py, lines 128-152
PluginHandlers(kind) ==
    CASE kind = "NEW_MESSAGE" -> <<"some_handler_1">>
      [] kind = "ORDERS_UPDATE" -> <<"some_handler_2">>
      [] kind = "NEW_ORDER" -> <<"some_handler_3">>
      [] kind = "DELIVERY" -> <<"some_handler_4">>
      [] kind = "RAISE" -> <<"some_handler_5">>

BuiltinHandlers(kind) ==
    CASE kind = "NEW_MESSAGE" -> REGISTER_TO_NEW_MESSAGE_EVENT
      [] kind = "ORDERS_UPDATE" -> REGISTER_TO_ORDERS_UPDATE_EVENT
      [] kind = "NEW_ORDER" -> REGISTER_TO_NEW_ORDER_EVENT
      [] kind = "DELIVERY" -> REGISTER_TO_DELIVERY_EVENT
      [] kind = "RAISE" -> REGISTER_TO_RAISE_EVENT

EventKinds == {"NEW_MESSAGE", "ORDERS_UPDATE", "NEW_ORDER", "DELIVERY", "RAISE"}

\* the registry: the lists of handlers.py first, then those of each plugin
Registry(kind, withPlugins) ==
    IF withPlugins THEN BuiltinHandlers(kind) \o PluginHandlers(kind)
    ELSE BuiltinHandlers(kind)

\* the number of positional parameters a handler needs (those before *args
\* that have no default value)
Required(h) ==
    CASE h = "log_msg_handler" -> 1
      [] h = "send_categories_raised_notification_handler" -> 4
      [] h = "send_delivery_notification_handler" -> 3
      [] h = "some_handler_4" -> 4
      [] h = "some_handler_5" -> 3
      [] OTHER -> 2

----------------------------------------------------------------------------
(* Cardinal.run_handlers: the dispatch of one event to its handlers *)

\* a dispatch in progress: the handlers before idx have been called
Frame(kind, args) ==
    [kind |-> kind, args |-> args, idx |-> 1, called |-> <<>>, raised |-> {}]

NoFrame == [kind |-> "none", args |-> <<>>, idx |-> 1, called |-> <<>>, raised |-> {}]

Top == stack[Len(stack)]

Handlers(frame) == Registry(frame.kind, plugins)

\* NextHandler of a dispatch that gives up at the first exception
NextHandlerStopsAtRaise(idx, n, result) == IF result = "raise" THEN n + 1 ELSE idx + 1

\* the handler called after the one at idx, of n, gave result: the next one,
\* whether it returned or raised
NextHandler(idx, n, result) == idx + 1

\* Escapes of a dispatch that catches nothing
EscapesUncaught(result) == result = "raise"

\* whether a handler's result leaves run_handlers as an exception
Escapes(result) == FALSE

\* the dispatch is about to call handler h
AtHandler(h) ==
    /\ loop = "running"
    /\ stack # <<>>
    /\ Top.idx <= Len(Handlers(Top))
    /\ Handlers(Top)[Top.idx] = h

\* ... and the arguments of the dispatch fit h's parameters
Calling(h) == AtHandler(h) /\ Len(Top.args) >= Required(h)

\* the call of h ended with result ("return" or "raise"), having started the
\* dispatches of pushed
Called(h, result, pushed) ==
    LET f == Top
        g == [f EXCEPT !.idx = NextHandler(f.idx, Len(Handlers(f)), result),
                       !.called = Append(@, [handler |-> h, args |-> f.args]),
                       !.raised = IF result = "raise" THEN @ \cup {f.idx} ELSE @]
    IN  IF Escapes(result)
        THEN /\ loop' = "crashed"
             /\ stack' = <<>>
             /\ UNCHANGED contained
        ELSE /\ loop' = loop
             /\ stack' = [stack EXCEPT ![Len(stack)] = g] \o pushed
             /\ contained' = (contained \/ result = "raise")

\* a handler called with fewer arguments than it needs raises TypeError
ArgumentError(h) ==
    /\ AtHandler(h)
    /\ Len(Top.args) < Required(h)
    /\ Called(h, "raise", <<>>)
    /\ UNCHANGED <<finished, main_config, plugins, log, products, inflight, delivery>>
    /\ UNCHANGED raiseVars

\* all the handlers have been called: run_handlers returns
EndDispatch ==
    /\ loop = "running"
    /\ stack # <<>>
    /\ Top.idx > Len(Handlers(Top))
    /\ finished' = Top
    /\ stack' = SubSeq(stack, 1, Len(stack) - 1)
    /\ UNCHANGED <<loop, contained, main_config, plugins, log, products, inflight, delivery>>
    /\ UNCHANGED raiseVars

\* no order has been given to deliver_product in the current event
NoDelivery == [kind |-> "none"]

\* Off of a handler that ignores its flag
OffNever(value) == FALSE

\* Python: not int(value), for the value of a flag of the main configuration
Off(value) == value = 0

\* an entry of the log
Did(op, node, text, res) == [op |-> op, node |-> node, text |-> text, res |-> res]

\* the most notification threads the handlers of an event start: one by each
\* notification handler of the event and of the delivery it leads to
Threads(kind) == IF kind = "NEW_ORDER" THEN 2 ELSE IF kind = "ORDERS_UPDATE" THEN 0 ELSE 1

\* the polling loop may dispatch the next event, of this kind
Ready(kind) ==
    /\ loop = "running"
    /\ stack = <<>>
    /\ inflight + Threads(kind) <= MaxInFlight

\* the runner found a new message
PollMessage(m) ==
    /\ Ready("NEW_MESSAGE")
    /\ stack' = <<Frame("NEW_MESSAGE", <<MsgArg(m), CardinalArg>>)>>
    /\ log' = <<>>
    /\ finished' = NoFrame
    /\ delivery' = NoDelivery
    /\ UNCHANGED <<loop, contained, main_config, plugins, products,
                   inflight>>
    /\ UNCHANGED raiseVars

\* NotificationEnds of a bridge whose failure stops the polling loop
NotificationEndsCrashing ==
    /\ inflight > 0
    /\ inflight' = inflight - 1
    /\ loop' = "crashed"
    /\ UNCHANGED <<stack, finished, contained, main_config, plugins, log,
                   products, delivery>>
    /\ UNCHANGED raiseVars

\* a notification thread ends: the text was sent, or the sending failed
NotificationEnds ==
    /\ inflight > 0
    /\ inflight' = inflight - 1
    /\ UNCHANGED <<loop, stack, finished, contained, main_config, plugins, log,
                   products, delivery>>
    /\ UNCHANGED raiseVars

\* Thread(target=cardinal.telegram.send_notification, args=(text, )).start()
StartThread(text) ==
    /\ inflight' = inflight + 1
    /\ log' = Append(log, Did("notify", "", text, "started"))

----------------------------------------------------------------------------
(* The handlers of a new message (handlers.py, lines 27-122) *)

\* what Account.send_message does with one call: it raises before the message
\* is accepted ("raise": the POST fails), it raises after FunPay accepted the
\* message ("lost": the answer times out or its .json() fails, lines 92-93), it
\* answers with a response body reporting an error ("error"), it answers
\* without a response body ("empty"), or it answers that the message is sent
SendResults == {"raise", "lost", "error", "empty", "ok"}

\* the outcomes send_response tells apart: it reads the answer, and an
\* exception is the same to it whether or not the message was accepted
ResponseSendResults == SendResults \ {"lost"}

\* the outcomes that differ for a delivery: send_product_text does not read the
\* answer, so that an answer without a body is to it as one reporting an error
DeliverySendResults == SendResults \ {"empty"}

\* the call of send_message raised
Raises(sending) == sending \in {"raise", "lost"}

\* ResponseOk that does not look for the error of the response body
ResponseOkIgnoresError(sending) == sending \in {"ok", "error"}

\* line 53: the answer has a response body and the body has no error
ResponseOk(sending) == sending = "ok"

\* the attempts send_response_handler makes (line 79)
ResponseAttempts == 3

\* the "response" option of a command's section
ResponseTemplate(key) == <<"Reply", "to", key.word, "for", "$username">>

\* cardinal_tools.format_msg_text: the variables of the template are replaced
\* by the fields of the message
format_msg_text(template, msg) ==
    [i \in 1..Len(template) |->
        IF template[i] = "$username" THEN msg.sender_username ELSE template[i]]

\* send_response, lines 48-60, when send_message behaves as sending says:
\* what it gives ("KeyError", "raise", False or True) and what it logs
send_response(msg, sending) ==
    LET key == Strip(msg.message_text)
    IN  IF key \notin AutoResponseKeys
        THEN [res |-> "KeyError", did |-> <<>>]
        ELSE LET response_text == format_msg_text(ResponseTemplate(key), msg)
             IN  [res |-> CASE Raises(sending) -> "raise"
                            [] ResponseOk(sending) -> "True"
                            [] OTHER -> "False",
                  did |-> <<Did("send_message", msg.node_id, response_text, sending)>>
                          \o (IF ~Raises(sending) /\ ResponseOk(sending)
                              THEN <<Did("last_messages", msg.node_id, response_text,
                                         "stored")>>
                              ELSE <<>>)]

\* the loop of lines 78-95, from the state (done, attempts) on; env[i] is how
\* send_message behaves in the i-th attempt
RECURSIVE ResponseLoop(_, _, _, _, _)
ResponseLoop(msg, env, done, attempts, acc) ==
    IF done \/ attempts = 0
    THEN [done |-> done, attempts |-> attempts, did |-> acc]
    ELSE LET r == send_response(msg, env[ResponseAttempts - attempts + 1])
             did == acc \o r.did \o <<Did("send_response", msg.node_id, <<>>, r.res)>>
         IN  IF r.res = "True"
             THEN ResponseLoop(msg, env, TRUE, attempts, did)
             ELSE ResponseLoop(msg, env, done, attempts - 1, did)

\* line 73: the message is a command
IsCommand(msg) == Lower(Strip(msg.message_text)) \in AutoResponseKeys

log_msg_handler ==
    /\ Calling("log_msg_handler")
    /\ Called("log_msg_handler", "return", <<>>)
    /\ UNCHANGED <<finished, main_config, plugins, log, products, inflight, delivery>>
    /\ UNCHANGED raiseVars

send_response_handler ==
    /\ Calling("send_response_handler")
    /\ LET msg == Top.args[1].msg
       IN  IF Off(main_config.AutoResponse) \/ ~IsCommand(msg)
           THEN UNCHANGED log
           ELSE \E env \in [1..ResponseAttempts -> ResponseSendResults] :
                    log' = log \o ResponseLoop(msg, env, FALSE, ResponseAttempts, <<>>).did
    /\ Called("send_response_handler", "return", <<>>)
    /\ UNCHANGED <<finished, main_config, plugins, products, inflight, delivery>>
    /\ UNCHANGED raiseVars

\* the text of the notification, lines 116-120
CommandNotificationText(msg) ==
    IF CommandOption(msg.message_text, "notificationText") = "none"
    THEN <<"command", msg.message_text.word, "by", msg.sender_username>>
    ELSE format_msg_text(<<"custom", "$username">>, msg)

\* lines 109-122: "return", "raise" (the KeyError of line 112) or "notify"
CommandNotification(msg) ==
    IF ~main_config.telegram \/ Strip(msg.message_text) \notin AutoResponseKeys
    THEN "return"
    ELSE IF msg.message_text \notin AutoResponseKeys
    THEN "raise"
    ELSE IF CommandOption(msg.message_text, "telegramNotification") = "none"
    THEN "return"
    ELSE IF CommandOption(msg.message_text, "telegramNotification") = "0"
    THEN "return"
    ELSE "notify"

send_command_notification_handler ==
    /\ Calling("send_command_notification_handler")
    /\ LET msg == Top.args[1].msg
           what == CommandNotification(msg)
       IN  /\ IF what = "notify"
              THEN StartThread(CommandNotificationText(msg))
              ELSE UNCHANGED <<log, inflight>>
           /\ Called("send_command_notification_handler",
                     IF what = "raise" THEN "raise" ELSE "return", <<>>)
    /\ UNCHANGED <<finished, main_config, plugins, products, delivery>>
    /\ UNCHANGED raiseVars

\* some_handler_1 .. some_handler_5 of plugins/example_plugin.py: pass
PluginHandlerNames ==
    {"some_handler_1", "some_handler_2", "some_handler_3", "some_handler_4",
     "some_handler_5"}

some_handler(h) ==
    /\ Calling(h)
    /\ Called(h, "return", <<>>)
    /\ UNCHANGED <<finished, main_config, plugins, log, products, inflight, delivery>>
    /\ UNCHANGED raiseVars

----------------------------------------------------------------------------
(* The handlers of a new order and of a delivery (handlers.py, lines 147-286) *)

\* the attempts send_product_text makes (line 157)
SendAttempts == 3

\* the sections of cardinal.auto_delivery_config, in the order of the file;
\* a lot name and a title are sequences of words; "none": the section has no
\* productsFilePath
auto_delivery_config ==
    << [lot_name |-> <<"100", "Key">>, response |-> <<"Enjoy", "order", "$order_id">>,
        productsFilePath |-> "none"],
       [lot_name |-> <<"Gold">>, response |-> <<"Thanks,", "$username", "$product">>,
        productsFilePath |-> "none"],
       [lot_name |-> <<"Key">>, response |-> <<"Your", "key:", "$product">>,
        productsFilePath |-> "keys"] >>

\* the products file when Cardinal starts
Stock == <<"K1", "K2">>

\* the Order values the runner produces
Orders ==
    { [id |-> "o1", title |-> t, buyer_name |-> "buyer"] :
        t \in {<<"100", "Gold">>, <<"Key">>, <<"100", "Key">>, <<"Key", "100">>,
               <<"Sword">>} }

\* Python: lot_name in order.title (lot_name is a substring of the title)
InTitle(lot_name, title) ==
    /\ Len(lot_name) <= Len(title)
    /\ \E i \in 0..(Len(title) - Len(lot_name)) :
           SubSeq(title, i + 1, i + Len(lot_name)) = lot_name

\* FindDelivery that keeps looking after a match: the last section in the title
RECURSIVE FindDeliveryLast(_, _)
FindDeliveryLast(title, i) ==
    IF i > Len(auto_delivery_config) THEN 0
    ELSE LET later == FindDeliveryLast(title, i + 1)
         IN  IF later # 0 THEN later
             ELSE IF InTitle(auto_delivery_config[i].lot_name, title) THEN i
             ELSE 0

\* lines 181-185: the index of the first section whose name is in the title,
\* 0 if there is none
RECURSIVE FindDelivery(_, _)
FindDelivery(title, i) ==
    IF i > Len(auto_delivery_config) THEN 0
    ELSE IF InTitle(auto_delivery_config[i].lot_name, title) THEN i
    ELSE FindDelivery(title, i + 1)

\* cardinal_tools.format_order_text: the variables of the template are replaced
\* by the fields of the order
format_order_text(template, order) ==
    [i \in 1..Len(template) |->
        CASE template[i] = "$username" -> order.buyer_name
          [] template[i] = "$order_id" -> order.id
          [] OTHER -> template[i]]

\* Python: text.replace("$product", product_text)
ReplaceProduct(text, product_text) ==
    [i \in 1..Len(text) |-> IF text[i] = "$product" THEN product_text ELSE text[i]]

\* cardinal_tools.get_product_from_json: the first product of the file and the
\* file without it; there is none to give when the file is empty
get_product_from_json(file) ==
    IF file = <<>>
    THEN [kind |-> "raise", product |-> "", file |-> file]
    ELSE [kind |-> "ok", product |-> Head(file), file |-> Tail(file)]

\* cardinal_tools.add_product_to_json: the file with the product put back
add_product_to_json(file, product_text) == Append(file, product_text)

\* Retry of a loop that also tries again after an answer reporting an error
RetryAfterError(sending) == sending # "ok"

\* lines 159-166: the attempt is counted as failed, and followed by the next
\* one, when send_message raised
Retry(sending) == Raises(sending)

\* send_product_text, lines 157-168, from the state attempts on; env[i] is how
\* send_message behaves in the i-th attempt
RECURSIVE send_product_text(_, _, _, _, _)
send_product_text(node_id, text, env, attempts, acc) ==
    IF attempts = 0
    THEN [result |-> FALSE, did |-> acc]
    ELSE LET sending == env[SendAttempts - attempts + 1]
             did == Append(acc, Did("send_message", node_id, text, sending))
         IN  IF Retry(sending)
             THEN send_product_text(node_id, text, env, attempts - 1, did)
             ELSE [result |-> TRUE, did |-> did]

\* what Account.get_node_id_by_username gives: the chat's id, or None
NodeIds == {"n1", "None"}

\* ... or an exception, when the chat's box has no usable data-id (lines 108-109)
Lookups == NodeIds \cup {"raise"}

\* LookupRaised of a delivery that gives up when the chat is not found
LookupFailed(lookup) == lookup # "n1"

\* line 189: get_node_id_by_username raised; None is a value like another
LookupRaised(lookup) == lookup = "raise"

\* HasProductsFile of a configuration whose every section has a file
HasProductsFileAlways(delivery_obj) == TRUE

\* line 192: delivery_obj.get("productsFilePath") is not None
HasProductsFile(delivery_obj) == delivery_obj.productsFilePath # "none"

\* ReturnProduct that leaves the file as the pop left it
ReturnProductNever(result, file, product_text) == file

\* lines 206-207: the product goes back to the file if it was not sent
ReturnProduct(result, file, product_text) ==
    IF ~result THEN add_product_to_json(file, product_text) ELSE file

\* what deliver_product gives when it has done nothing
NothingDelivered(kind, text, file) ==
    [kind |-> kind, rule |-> 0, result |-> FALSE, text |-> text, remaining |-> 0,
     did |-> <<>>, file |-> file]

\* deliver_product, lines 180-208, when get_node_id_by_username gives lookup,
\* send_message behaves as env says and the products file holds file.
\* kind: "None" (no section), "result" (the tuple result, text, remaining) or
\* "raise" (an exception, with text its message)
deliver_product(order, lookup, env, file) ==
    LET found == FindDelivery(order.title, 1)
        looked == <<Did("get_node_id_by_username", "", <<order.buyer_name>>, lookup)>>
    IN  IF found = 0
        THEN NothingDelivered("None", <<>>, file)
        ELSE IF LookupRaised(lookup)
        THEN [NothingDelivered("raise", <<"no", "data-id">>, file)
                  EXCEPT !.rule = found, !.did = looked]
        ELSE
          LET delivery_obj == auto_delivery_config[found]
              node_id == lookup
              response_text == format_order_text(delivery_obj.response, order)
          IN  IF ~HasProductsFile(delivery_obj)
              THEN LET sent == send_product_text(node_id, response_text, env,
                                                 SendAttempts, looked)
                   IN  [kind |-> "result", rule |-> found, result |-> sent.result,
                        text |-> response_text, remaining |-> -1,
                        did |-> sent.did, file |-> file]
              ELSE IF get_product_from_json(file).kind = "raise"
              THEN [NothingDelivered("raise", <<"no", "products">>, file)
                        EXCEPT !.rule = found,
                               !.did = Append(looked,
                                              Did("get_product_from_json", "", <<>>,
                                                  "raise"))]
              ELSE
                LET product == get_product_from_json(file)
                    product_text == product.product
                    text == ReplaceProduct(response_text, product_text)
                    popped == Append(looked, Did("get_product_from_json", "",
                                                 <<product_text>>, "ok"))
                    sent == send_product_text(node_id, text, env, SendAttempts, popped)
                IN  [kind |-> "result", rule |-> found, result |-> sent.result,
                     text |-> text, remaining |-> -1,
                     did |-> IF ~sent.result
                             THEN Append(sent.did, Did("add_product_to_json", "",
                                                       <<product_text>>, "ok"))
                             ELSE sent.did,
                     file |-> ReturnProduct(sent.result, product.file, product_text)]

\* the errored parameter of send_delivery_notification_handler: False by default
Errored(args) == IF Len(args) >= 4 THEN args[4].bool ELSE FALSE

\* DeliveryArgs that does not flag the exception of deliver_product
DeliveryArgsExceptionUnflagged(order, delivered) ==
    IF delivered.kind = "result" /\ ~delivered.result
    THEN <<OrderArg(order), TextArg(<<"attempts", "exceeded">>), CardinalArg,
           BoolArg(TRUE)>>
    ELSE <<OrderArg(order), TextArg(delivered.text), CardinalArg>>

\* the arguments of the DELIVERY dispatch, lines 227-228, 231-232 and 236-237
DeliveryArgs(order, delivered) ==
    IF delivered.kind = "raise"
    THEN <<OrderArg(order), TextArg(delivered.text), CardinalArg, BoolArg(TRUE)>>
    ELSE IF ~delivered.result
    THEN <<OrderArg(order), TextArg(<<"attempts", "exceeded">>), CardinalArg,
           BoolArg(TRUE)>>
    ELSE <<OrderArg(order), TextArg(delivered.text), CardinalArg>>

\* DeliveryDispatch that tells the DELIVERY handlers of every order
DeliveryDispatchAlways(order, delivered) ==
    <<Frame("DELIVERY", DeliveryArgs(order, delivered))>>

\* DeliveryDispatch whose except branch also runs after a dispatch of success
DeliveryDispatchAgain(order, delivered) ==
    IF delivered.kind = "None" THEN <<>>
    ELSE IF delivered.kind = "result" /\ delivered.result
    THEN <<Frame("DELIVERY", <<OrderArg(order), TextArg(<<"again">>), CardinalArg,
                               BoolArg(TRUE)>>),
           Frame("DELIVERY", DeliveryArgs(order, delivered))>>
    ELSE <<Frame("DELIVERY", DeliveryArgs(order, delivered))>>

\* lines 222-237: the DELIVERY dispatches delivery_product_handler starts
DeliveryDispatch(order, delivered) ==
    IF delivered.kind = "None" THEN <<>>
    ELSE <<Frame("DELIVERY", DeliveryArgs(order, delivered))>>

\* the calls of run_handlers that start the dispatches of frames
RunHandlers(frames) ==
    [k \in 1..Len(frames) |->
        Did("run_handlers", "", frames[k].args[2].text,
            IF Errored(frames[k].args) THEN "errored" ELSE "delivered")]

delivery_product_handler ==
    /\ Calling("delivery_product_handler")
    /\ LET order == Top.args[1].order
       IN  IF Off(main_config.autoDelivery)
           THEN /\ Called("delivery_product_handler", "return", <<>>)
                /\ UNCHANGED <<log, products, delivery>>
           ELSE \E lookup \in Lookups, env \in [1..SendAttempts -> DeliverySendResults] :
                    LET delivered == deliver_product(order, lookup, env, products)
                    IN  /\ log' = log \o delivered.did
                                      \o RunHandlers(DeliveryDispatch(order, delivered))
                        /\ products' = delivered.file
                        /\ delivery' = [kind |-> delivered.kind, order |-> order,
                                        rule |-> delivered.rule,
                                        result |-> delivered.result,
                                        text |-> delivered.text,
                                        remaining |-> delivered.remaining,
                                        before |-> products]
                        /\ Called("delivery_product_handler", "return",
                                  DeliveryDispatch(order, delivered))
    /\ UNCHANGED <<finished, main_config, plugins, inflight>>
    /\ UNCHANGED raiseVars

\* lines 253-257
NewOrderText(order) == <<"new", "order", order.id>> \o order.title

send_new_order_notification_handler ==
    /\ Calling("send_new_order_notification_handler")
    /\ LET order == Top.args[1].order
       IN  IF ~main_config.telegram \/ Off(main_config.newOrderNotification)
           THEN UNCHANGED <<log, inflight>>
           ELSE StartThread(NewOrderText(order))
    /\ Called("send_new_order_notification_handler", "return", <<>>)
    /\ UNCHANGED <<finished, main_config, plugins, products, delivery>>
    /\ UNCHANGED raiseVars

\* lines 278-284
DeliveryText(order, delivery_text, errored) ==
    IF errored THEN <<"error", order.id>> \o delivery_text
    ELSE <<"delivered", order.id>> \o delivery_text

send_delivery_notification_handler ==
    /\ Calling("send_delivery_notification_handler")
    /\ LET order == Top.args[1].order
           delivery_text == Top.args[2].text
       IN  IF ~main_config.telegram \/ Off(main_config.productsDeliveryNotification)
           THEN UNCHANGED <<log, inflight>>
           ELSE StartThread(DeliveryText(order, delivery_text, Errored(Top.args)))
    /\ Called("send_delivery_notification_handler", "return", <<>>)
    /\ UNCHANGED <<finished, main_config, plugins, products, delivery>>
    /\ UNCHANGED raiseVars

\* the runner found a new order
PollNewOrder(order) ==
    /\ Ready("NEW_ORDER")
    /\ stack' = <<Frame("NEW_ORDER", <<OrderArg(order), CardinalArg>>)>>
    /\ log' = <<>>
    /\ finished' = NoFrame
    /\ delivery' = NoDelivery
    /\ UNCHANGED <<loop, contained, main_config, plugins, products,
                   inflight>>
    /\ UNCHANGED raiseVars

----------------------------------------------------------------------------
(* The handlers of a raise and of an orders update (handlers.py, lines 126-143
   and 290-323) *)

\* lines 140-143
RaiseText(game_id, names, wait_time) == <<"raised", game_id>> \o names

send_categories_raised_notification_handler ==
    /\ Calling("send_categories_raised_notification_handler")
    /\ IF ~main_config.telegram \/ Off(main_config.lotsRaiseNotification)
       THEN UNCHANGED <<log, inflight>>
       ELSE StartThread(RaiseText(Top.args[1].game_id, Top.args[2].names,
                                  Top.args[3].wait_time))
    /\ Called("send_categories_raised_notification_handler", "return", <<>>)
    /\ UNCHANGED <<finished, main_config, plugins, products, delivery>>
    /\ UNCHANGED raiseVars

\* the lots of the account were raised
PollRaise(game_id, names, wait_time) ==
    /\ Ready("RAISE")
    /\ stack' = <<Frame("RAISE", <<GameArg(game_id), NamesArg(names),
                                   WaitArg(wait_time), CardinalArg>>)>>
    /\ log' = <<>>
    /\ finished' = NoFrame
    /\ delivery' = NoDelivery
    /\ UNCHANGED <<loop, contained, main_config, plugins, products,
                   inflight>>
    /\ UNCHANGED raiseVars

\* the attempts updates_lots_state_handler makes to get the lots (line 301)
FetchAttempts == 3

\* cardinal.lots: the lots Cardinal knows
lots == << [id |-> "l1", game_id |-> "g1"], [id |-> "l2", game_id |-> "g1"] >>

LotIds == {lots[i].id : i \in 1..Len(lots)}

\* the listings get_user_lots_info may give: the ids of the account's active
\* lots, in the order of the page
Listings == {<<>>, <<"l1">>, <<"l2">>, <<"l1", "l2">>}

\* the loop of lines 301-310, from the state attempts on; fetched[i] tells
\* whether the i-th get_user_lots_info gives the listing lots_info
RECURSIVE FetchLoop(_, _, _, _)
FetchLoop(fetched, lots_info, attempts, acc) ==
    IF attempts = 0
    THEN [attempts |-> 0, did |-> acc]
    ELSE IF fetched[FetchAttempts - attempts + 1]
    THEN [attempts |-> attempts,
          did |-> Append(acc, Did("get_user_lots_info", "", lots_info, "ok"))]
    ELSE FetchLoop(fetched, lots_info, attempts - 1,
                   Append(acc, Did("get_user_lots_info", "", <<>>, "raise")))

\* Deactivated of a sweep that activates every lot it knows
DeactivatedAlways(lot, lots_ids) == TRUE

\* line 318: lot.id not in lots_ids
Deactivated(lot, lots_ids) == \A i \in 1..Len(lots_ids) : lots_ids[i] # lot.id

\* the loop of lines 317-323, from lot i on; lots_ids are the ids of the
\* listing, state[id] is what change_lot_state does for the lot id
RECURSIVE ActivateFrom(_, _, _, _)
ActivateFrom(lots_ids, state, i, acc) ==
    IF i > Len(lots) THEN acc
    ELSE IF Deactivated(lots[i], lots_ids)
    THEN ActivateFrom(lots_ids, state, i + 1,
                      Append(acc, Did("change_lot_state", lots[i].game_id,
                                      <<lots[i].id>>, state[lots[i].id])))
    ELSE ActivateFrom(lots_ids, state, i + 1, acc)

\* updates_lots_state that goes on after the last failed fetch
updates_lots_state_unchecked(fetched, lots_ids, state) ==
    ActivateFrom(lots_ids, state, 1, FetchLoop(fetched, lots_ids, FetchAttempts, <<>>).did)

\* lines 299-323
updates_lots_state(fetched, lots_ids, state) ==
    LET got == FetchLoop(fetched, lots_ids, FetchAttempts, <<>>)
    IN  IF got.attempts = 0 THEN got.did
        ELSE ActivateFrom(lots_ids, state, 1, got.did)

updates_lots_state_handler ==
    /\ Calling("updates_lots_state_handler")
    /\ IF Off(main_config.autoRestore)
       THEN UNCHANGED log
       ELSE \E fetched \in [1..FetchAttempts -> BOOLEAN], lots_ids \in Listings,
               state \in [LotIds -> {"ok", "raise"}] :
                log' = log \o updates_lots_state(fetched, lots_ids, state)
    /\ Called("updates_lots_state_handler", "return", <<>>)
    /\ UNCHANGED <<finished, main_config, plugins, products, inflight, delivery>>
    /\ UNCHANGED raiseVars

\* FunPay reported a change of the orders
PollOrdersUpdate ==
    /\ Ready("ORDERS_UPDATE")
    /\ stack' = <<Frame("ORDERS_UPDATE", <<EventArg, CardinalArg>>)>>
    /\ log' = <<>>
    /\ finished' = NoFrame
    /\ delivery' = NoDelivery
    /\ UNCHANGED <<loop, contained, main_config, plugins, products,
                   inflight>>
    /\ UNCHANGED raiseVars

----------------------------------------------------------------------------
(* The program *)

\* the flags of [FunPay] and [Telegram] in the main configuration, and whether
\* the Telegram bot is set up
AllConfigs ==
    [AutoResponse : {0, 1}, autoDelivery : {0, 1}, autoRestore : {0, 1},
     telegram : BOOLEAN, newOrderNotification : {0, 1},
     productsDeliveryNotification : {0, 1}, lotsRaiseNotification : {0, 1}]

Flags ==
    {"AutoResponse", "autoDelivery", "autoRestore", "newOrderNotification",
     "productsDeliveryNotification", "lotsRaiseNotification"}

\* the number of flags of c that are on
FlagsOn(c) ==
    Cardinality({f \in Flags : c[f] = 1}) + (IF c.telegram THEN 1 ELSE 0)

\* the configurations Cardinal is started with
Configs ==
    {c \in AllConfigs :
        \/ FlagsOn(c) <= MaxDeviation
        \/ FlagsOn(c) >= Cardinality(Flags) + 1 - MaxDeviation}

\* the raises the RAISE event reports
RaisedNames == {<<"Gold">>, <<"Gold", "Accounts">>}

DispatchInit ==
    /\ loop = "running"
    /\ stack = <<>>
    /\ finished = NoFrame
    /\ contained = FALSE
    /\ main_config \in Configs
    /\ plugins \in BOOLEAN
    /\ log = <<>>
    /\ products = Stock
    /\ inflight = 0
    /\ delivery = NoDelivery

NextDispatch ==
    \/ \E m \in Messages : PollMessage(m)
    \/ \E o \in Orders : PollNewOrder(o)
    \/ PollOrdersUpdate
    \/ \E names \in RaisedNames : PollRaise("g1", names, 3600)
    \/ log_msg_handler
    \/ send_response_handler
    \/ send_command_notification_handler
    \/ send_new_order_notification_handler
    \/ delivery_product_handler
    \/ send_delivery_notification_handler
    \/ send_categories_raised_notification_handler
    \/ updates_lots_state_handler
    \/ \E h \in PluginHandlerNames : some_handler(h)
    \/ \E h \in PluginHandlerNames : ArgumentError(h)
    \/ EndDispatch
    \/ NotificationEnds

vars == <<raiseVars, dispatchVars>>

Init == RaiseInit /\ DispatchInit

\* the raise workflow, under the configuration with every flag on
AllOn ==
    [AutoResponse |-> 1, autoDelivery |-> 1, autoRestore |-> 1, telegram |-> TRUE,
     newOrderNotification |-> 1, productsDeliveryNotification |-> 1,
     lotsRaiseNotification |-> 1]

InitRaise == Init /\ main_config = AllOn /\ plugins = TRUE

SpecRaise == InitRaise /\ [][NextRaise]_vars

\* the dispatch of the events
Spec == Init /\ [][NextDispatch]_vars

----------------------------------------------------------------------------
(* The properties of the dispatch *)

\* the calls a dispatch of frame f's event makes when it calls the first n
\* registered handlers once each, in the order of the registry, with f's
\* arguments
CallsInOrder(f, n) ==
    [i \in 1..n |-> [handler |-> Registry(f.kind, plugins)[i], args |-> f.args]]

\* C1: a dispatch calls every registered handler of the event's kind exactly
\* once, in the order of registration and with the same arguments, whether or
\* not earlier handlers of the dispatch raised: a dispatch that has returned
\* made exactly the calls of the whole registry, and a dispatch in progress
\* made those of the handlers before the one it stands at.
C1_EveryHandlerOnceInOrder ==
    /\ finished.kind # "none" =>
           finished.called = CallsInOrder(finished, Len(Registry(finished.kind, plugins)))
    /\ \A k \in 1..Len(stack) :
           /\ stack[k].idx <= Len(Registry(stack[k].kind, plugins)) + 1
           /\ stack[k].called = CallsInOrder(stack[k], stack[k].idx - 1)

\* a dispatch of a message returned after its third handler,
\* send_command_notification_handler, raised and the fourth was still called
C1_Witness ==
    /\ finished.kind = "NEW_MESSAGE"
    /\ 3 \in finished.raised
    /\ Len(finished.called) = 4
    /\ finished.called[4].handler = "some_handler_1"

\* C2: no exception of a handler leaves the dispatch: the polling loop keeps
\* running, and a dispatch in which a handler raised goes on past that handler.
C2_NoExceptionEscapes ==
    /\ loop = "running"
    /\ \A k \in 1..Len(stack) : \A i \in stack[k].raised : stack[k].idx > i
    /\ \A i \in finished.raised : finished.idx > i

\* after a dispatch caught an exception, a later dispatch of a message called
\* all its handlers and returned
C2_Witness ==
    /\ contained
    /\ stack = <<>>
    /\ finished.kind = "NEW_MESSAGE"
    /\ finished.raised = {}
    /\ Len(finished.called) = Len(Registry("NEW_MESSAGE", plugins))

----------------------------------------------------------------------------
(* The properties of the raise workflow *)

\* request_lots_raise gave its answer, check
Answered ==
    /\ rstate \notin {"Idle", "Requesting"}
    /\ ~(rstate = "Raised" /\ Len(requests) = 1)

\* the call is over: it returned or raised
Over == ret.kind # "pending"

\* C3: an answer with a truthy error flag and a message containing the
\* cooldown notice gives complete = false, no raised names and the wait parsed
\* from the message (45 for the notice of 45 seconds), with no second request.
C3_CooldownRejected ==
    (Answered /\ Truthy(check.error) /\ check.msg.present /\ ContainsNotice(check.msg)) =>
        /\ rstate = "CooldownRejected"
        /\ ret.kind = "dict"
        /\ ret.value.complete = FALSE
        /\ ret.value.raised_category_names = <<>>
        /\ ret.value.wait = get_wait_time_from_raise_response(check.msg)
        /\ (check.msg = Msg45 => ret.value.wait = 45)
        /\ (check.msg = Msg3600 => ret.value.wait = 3600)
        /\ Len(requests) = 1
        /\ ~requests[1].has_node_ids

C3_Witness ==
    /\ rstate = "CooldownRejected"
    /\ check.msg = Msg45
    /\ ret.value.wait = 45

\* C4: an answer with a truthy error flag whose message is missing or does not
\* contain the cooldown notice gives exactly complete = false, wait = 10 and no
\* raised names.
C4_Errored ==
    (Answered /\ Truthy(check.error)
         /\ (~check.msg.present \/ ~ContainsNotice(check.msg))) =>
        /\ ret.kind = "dict"
        /\ ret.value.complete = FALSE
        /\ ret.value.wait = 10
        /\ ret.value.raised_category_names = <<>>

C4_Witness ==
    /\ rstate = "Errored"
    /\ check.msg = MsgOther
    /\ ret.value.wait = 10

\* C5: an answer with an explicit no-error marker (the error key present with
\* the value false or 0) and no modal gives complete = true, wait = 3600 and
\* the title of the category as the only raised name.
C5_SingleCategoryAutoRaised ==
    (Answered /\ check.error \in {"false", "0"} /\ check.modal.kind # "html") =>
        /\ ret.kind = "dict"
        /\ ret.value.complete = TRUE
        /\ ret.value.wait = 3600
        /\ ret.value.raised_category_names = <<category.title>>

C5_Witness ==
    /\ rstate = "SingleCategoryAutoRaised"
    /\ check.error = "false"
    /\ check.modal = NoModal
    /\ ret.value.raised_category_names = <<"Gold">>

\* C6: an answer with a non-empty modal and no truthy error flag (the error key
\* missing, or present with a falsy value) makes the workflow parse the modal
\* and submit a second request with the selected ids before it returns.
C6_ModalPresented ==
    (Answered /\ check.modal.kind = "html" /\ ~Truthy(check.error)) =>
        /\ rstate \in {"ModalPresented", "ModalSubmitted", "Raised"}
        /\ Len(requests) = 2
        /\ requests[2].has_node_ids
        /\ requests[2].node_ids = category_ids

\* the positions of the checkboxes the exclusion leaves (None excludes nothing)
Left(checkboxes, excl) ==
    {i \in 1..Len(checkboxes) : excl.isNone \/ checkboxes[i].value \notin excl.items}

\* out lists field of the checkboxes at the positions of keep, in their order
ListsInOrder(out, checkboxes, keep, field) ==
    /\ Len(out) = Cardinality(keep)
    /\ \A i \in keep : out[Cardinality({j \in keep : j <= i})] = checkboxes[i][field]

\* the modal was answered by a submission
InModalStep == Answered /\ Len(requests) = 2

C8_SubmitOutcome ==
    rstate = "ModalSubmitted" =>
        /\ ret.kind = "dict"
        /\ ret.value.response = response
        /\ IF Truthy(response.error)
           THEN /\ ret.value.complete = FALSE
                /\ ret.value.wait = 10
                /\ ret.value.raised_category_names = <<>>
           ELSE /\ ret.value.complete = TRUE
                /\ ret.value.wait = 3600
                /\ ret.value.raised_category_names =
                       [i \in 1..Len(requests[2].node_ids) |->
                           CategoryLabel(requests[2].node_ids[i])]

C8_Witness ==
    /\ rstate = "ModalSubmitted"
    /\ response.error = "absent"
    /\ ret.value.complete
    /\ ret.value.raised_category_names = <<"Gold", "Items">>

\* C9: every outcome the workflow returns has raised names only if it is
\* complete.
C9_NamesOnlyIfComplete ==
    (ret.kind = "dict" /\ ~ret.value.complete) => ret.value.raised_category_names = <<>>

\* the submission failed after names had been collected from the modal
C9_Witness ==
    /\ rstate = "ModalSubmitted"
    /\ category_names # <<>>
    /\ ret.kind = "dict"
    /\ ~ret.value.complete

\* C10: no exception leaves the workflow and every path returns an outcome:
\* the call ends in one of the four terminal states with a dictionary.
C10_AlwaysAnOutcome ==
    Over =>
        /\ ret.kind = "dict"
        /\ rstate \in {"CooldownRejected", "Errored", "SingleCategoryAutoRaised",
                       "ModalSubmitted"}

----------------------------------------------------------------------------
(* The properties of the delivery workflow *)

\* the log entries of the current event made by the operations ops
Entries(ops) == SelectSeq(log, LAMBDA e : e.op \in ops)

\* the send_message calls of the current event
Sends == Entries({"send_message"})

\* what deliver_product does to the buyer's chat and to the products file
DeliveryOps ==
    {"get_node_id_by_username", "send_message", "get_product_from_json",
     "add_product_to_json"}

\* the DELIVERY dispatches in progress, and the one that returned last
DeliveryFrames ==
    {stack[k] : k \in {j \in 1..Len(stack) : stack[j].kind = "DELIVERY"}}
        \cup (IF finished.kind = "DELIVERY" THEN {finished} ELSE {})

\* the sections of the delivery configuration whose name is in the title
Matching(title) ==
    {i \in 1..Len(auto_delivery_config) :
        InTitle(auto_delivery_config[i].lot_name, title)}

\* deliver_product found a section, and the section has (no) products file
Tracked ==
    /\ delivery.kind \in {"result", "raise"}
    /\ auto_delivery_config[delivery.rule].productsFilePath # "none"

Untracked ==
    /\ delivery.kind \in {"result", "raise"}
    /\ auto_delivery_config[delivery.rule].productsFilePath = "none"

\* the rendered response of the section deliver_product found
Rendered ==
    format_order_text(auto_delivery_config[delivery.rule].response, delivery.order)

\* C11: deliver_product uses the first section, in the order of the
\* configuration, whose name is a substring of the order's title, and gives
\* None exactly when no section's name is a substring of the title.
C11_FirstMatchingRule ==
    delivery.kind # "none" =>
        LET m == Matching(delivery.order.title)
        IN  /\ (delivery.kind = "None") <=> (m = {})
            /\ m # {} => /\ delivery.rule \in m
                         /\ \A i \in m : delivery.rule <= i

C11_Witness ==
    /\ delivery.kind = "result"
    /\ delivery.order.title = <<"100", "Key">>
    /\ Cardinality(Matching(delivery.order.title)) = 2
    /\ delivery.rule = 1

\* C12: when no section matches the title, the delivery handler starts no
\* DELIVERY dispatch, looks up no chat, sends nothing and leaves the products
\* file as it was.
C12_NoRuleIsLocal ==
    delivery.kind = "None" =>
        /\ DeliveryFrames = {}
        /\ Entries(DeliveryOps) = <<>>
        /\ products = delivery.before

C12_Witness ==
    /\ delivery.kind = "None"
    /\ delivery.order.title = <<"Sword">>
    /\ finished.kind = "NEW_ORDER"
    /\ Len(finished.called) >= 2

\* C13: for a section with a products file, a delivery that ends with a failed
\* send leaves as many products in the file as there were: the product taken
\* has been put back.
C13_FailedSendRestoresInventory ==
    (Tracked /\ delivery.kind = "result" /\ ~delivery.result) =>
        LET got == Entries({"get_product_from_json"})
            put == Entries({"add_product_to_json"})
        IN  /\ Len(products) = Len(delivery.before)
            /\ Len(got) = 1
            /\ Len(put) = 1
            /\ put[1].text = got[1].text
            /\ \E i \in 1..Len(products) : <<products[i]>> = got[1].text

C13_Witness ==
    /\ Tracked
    /\ delivery.kind = "result"
    /\ ~delivery.result
    /\ delivery.before = <<"K1", "K2">>
    /\ products = <<"K2", "K1">>

\* C14: a delivery makes at most 3 send attempts, none after the first attempt
\* that does not raise, and deliver_product reports failure exactly when 3
\* attempts in a row raised, which are then all the attempts made.
C14_BoundedSendAttempts ==
    delivery.kind # "none" =>
        /\ Len(Sends) <= 3
        /\ \A k \in 1..(Len(Sends) - 1) : Sends[k].res \in {"raise", "lost"}
        /\ delivery.kind = "result" =>
               (~delivery.result <=>
                    (Len(Sends) = 3 /\ \A k \in 1..3 : Sends[k].res \in {"raise", "lost"}))

C14_Witness ==
    /\ delivery.kind = "result"
    /\ ~delivery.result
    /\ Len(Sends) = 3

\* C15: when every send_message call made for the order raised or answered
\* with an error, the products file holds the product again and the DELIVERY
\* handlers are told of a failure.
C15_NoUnitLostUnsent ==
    (Tracked /\ delivery.kind = "result"
         /\ \A k \in 1..Len(Sends) : Sends[k].res \in {"raise", "error", "empty"}) =>
        /\ Len(products) = Len(delivery.before)
        /\ ~delivery.result
        /\ \A f \in DeliveryFrames : Errored(f.args)

\* C16: every DELIVERY dispatch, after a success as after a failure, has the
\* four positional arguments order, text, cardinal and errored, and errored is
\* true exactly when the delivery failed.
C16_DeliveryArgsAlwaysFour ==
    \A f \in DeliveryFrames :
        /\ Len(f.args) = 4
        /\ f.args[4].bool = (delivery.kind = "raise" \/ ~delivery.result)

\* C17: for a section without a products file the text sent is the rendered
\* response as it is, the products file is neither read nor written, and a
\* successful send gives success with the rendered text and remaining -1.
C17_TemplatedDelivery ==
    (Untracked /\ delivery.kind = "result") =>
        /\ Sends # <<>>
        /\ \A k \in 1..Len(Sends) : Sends[k].text = Rendered
        /\ Entries({"get_product_from_json", "add_product_to_json"}) = <<>>
        /\ products = delivery.before
        /\ delivery.result =>
               /\ delivery.text = Rendered
               /\ delivery.remaining = -1
               /\ \A f \in DeliveryFrames :
                      ~Errored(f.args) /\ f.args[2].text = Rendered

C17_Witness ==
    /\ Untracked
    /\ delivery.result
    /\ delivery.order.title = <<"100", "Gold">>
    /\ delivery.text = <<"Thanks,", "buyer", "$product">>
    /\ Sends[Len(Sends)].res = "ok"

\* the delivery failed: the attempts were exhausted, or deliver_product raised
Failed ==
    \/ delivery.kind = "raise"
    \/ delivery.kind = "result" /\ ~delivery.result

\* the text of the notification of the delivery has been handed to a thread
Notified(f) ==
    /\ \E k \in 1..Len(f.called) :
           f.called[k].handler = "send_delivery_notification_handler"
    /\ main_config.telegram
    /\ main_config.productsDeliveryNotification = 1

\* C18: every failed delivery, by exhausted attempts or by an exception in
\* deliver_product, leads to a DELIVERY dispatch flagged as errored with a
\* reason, which the notification handler renders as a text other than that of
\* a success; no exception leaves delivery_product_handler.
C18_FailureIsDispatched ==
    (Failed /\ stack # <<>>) =>
        /\ loop = "running"
        /\ stack[1].kind = "NEW_ORDER"
        /\ 2 \notin stack[1].raised
        /\ DeliveryFrames # {}
        /\ \A f \in DeliveryFrames :
               /\ Len(f.args) = 4
               /\ f.args[4].bool
               /\ f.args[2].text # <<>>
               /\ Notified(f) =>
                      /\ Entries({"notify"})[Len(Entries({"notify"}))].text
                             = <<"error", delivery.order.id>> \o f.args[2].text
                      /\ DeliveryText(delivery.order, f.args[2].text, TRUE)
                             # DeliveryText(delivery.order, f.args[2].text, FALSE)

C18_Witness ==
    /\ delivery.kind = "raise"
    /\ delivery.text = <<"no", "products">>
    /\ finished.kind = "DELIVERY"
    /\ Notified(finished)
    /\ stack # <<>>

\* the event being dispatched, or dispatched last
Event == IF stack # <<>> THEN stack[1].kind ELSE finished.kind

\* the notifications started in the current event whose text begins with one of heads
Notifications(heads) ==
    SelectSeq(log, LAMBDA e : e.op = "notify" /\ Head(e.text) \in heads)

\* C19: a flag that is 0 switches its handler off: with AutoResponse,
\* autoDelivery or autoRestore 0 the handler calls nothing, touches no
\* products file and starts no dispatch; without the Telegram bot, or with a
\* notification flag 0, the notification handler starts no thread.
C19_FlagsGateHandlers ==
    /\ main_config.AutoResponse = 0 =>
           Entries({"send_message", "send_response", "last_messages"}) = <<>>
               \/ Event # "NEW_MESSAGE"
    /\ main_config.autoDelivery = 0 =>
           /\ delivery = NoDelivery
           /\ Entries(DeliveryOps) = <<>> \/ Event # "NEW_ORDER"
           /\ products = Stock
           /\ DeliveryFrames = {}
    /\ main_config.autoRestore = 0 =>
           Entries({"get_user_lots_info", "change_lot_state"}) = <<>>
    /\ ~main_config.telegram => (Entries({"notify"}) = <<>> /\ inflight = 0)
    /\ main_config.newOrderNotification = 0 => Notifications({"new"}) = <<>>
    /\ main_config.productsDeliveryNotification = 0 =>
           Notifications({"error", "delivered"}) = <<>>
    /\ main_config.lotsRaiseNotification = 0 => Notifications({"raised"}) = <<>>

C19_Witness ==
    /\ main_config.autoDelivery = 0
    /\ main_config.AutoResponse = 1
    /\ finished.kind = "NEW_ORDER"
    /\ finished.args[1].order.title = <<"Key">>
    /\ \E k \in 1..Len(finished.called) :
           finished.called[k].handler = "delivery_product_handler"
    /\ Notifications({"new"}) # <<>>

\* C20: an answer without the error key and without a modal is handled as an
\* answer whose error key is false: complete = true, wait = 3600 and the title
\* of the category as the only raised name.
C20_AbsentErrorIsAutoRaised ==
    (Answered /\ check.error = "absent" /\ ~ModalTruthy(check.modal)) =>
        /\ rstate = "SingleCategoryAutoRaised"
        /\ ret.kind = "dict"
        /\ ret.value.complete = TRUE
        /\ ret.value.wait = 3600
        /\ ret.value.raised_category_names = <<category.title>>

----------------------------------------------------------------------------
(* The order of the steps of a raise attempt *)

\* the requests posted so far fit the state the attempt is in
RequestsFit ==
    /\ rstate # "Idle" =>
           /\ Len(requests) \in {1, 2}
           /\ ~requests[1].has_node_ids
    /\ Len(requests) = 2 =>
           /\ requests[2].has_node_ids
           /\ ModalTruthy(check.modal)
           /\ rstate \in {"ModalPresented", "ModalSubmitted", "Raised"}
    /\ rstate \in {"CooldownRejected", "Errored", "SingleCategoryAutoRaised"} =>
           Len(requests) = 1

\* a step of the attempt goes along an edge of the state machine, or ends the
\* attempt outside of it (None or an exception, the subject of C10)
EdgeTaken ==
    /\ (rstate = "Idle" /\ rstate' # rstate) => rstate' = "Requesting"
    /\ (rstate = "Requesting" /\ rstate' # rstate) =>
           rstate' \in {"CooldownRejected", "Errored", "SingleCategoryAutoRaised",
                        "ModalPresented", "NoBranch", "Raised"}
    /\ (rstate = "ModalPresented" /\ rstate' # rstate) =>
           rstate' \in {"ModalSubmitted", "Raised"}
    /\ (rstate \notin {"Idle", "Requesting", "ModalPresented"} /\ rstate' # rstate) =>
           rstate' = "Idle"

\* C21: a raise attempt moves only from Requesting to CooldownRejected, Errored,
\* SingleCategoryAutoRaised or ModalPresented and from ModalPresented to
\* ModalSubmitted; one raise request comes first, a submission is posted at
\* most once and only after an answer with a modal, and the three other
\* terminal states are reached without a submission.
C21_OnlyMachineEdges == [][EdgeTaken /\ RequestsFit /\ RequestsFit']_vars

C21_Witness ==
    /\ rstate = "ModalSubmitted"
    /\ Len(requests) = 2
    /\ requests[2].has_node_ids
    /\ ~requests[1].has_node_ids

----------------------------------------------------------------------------
(* The properties of the handlers, continued *)

\* the dispatch of the current event
EventFrame == IF stack # <<>> THEN stack[1] ELSE finished

\* the handler h of the current event has been called
HasRun(h) ==
    \E k \in 1..Len(EventFrame.called) : EventFrame.called[k].handler = h

\* the handler h of the current event has been called and did not raise
Returns(h) ==
    \E k \in 1..Len(EventFrame.called) :
        EventFrame.called[k].handler = h /\ k \notin EventFrame.raised

\* C22: when the lookup of the buyer's chat gives None, deliver_product still
\* renders the text, takes a product if the section has a file and makes the
\* send attempts with None as the chat: None never ends the delivery early.
C22_NullChannelStillDelivers ==
    LET looked == Entries({"get_node_id_by_username"})
    IN  (delivery.kind \in {"result", "raise"} /\ looked # <<>>
             /\ looked[1].res = "None") =>
            /\ Untracked => (Sends # <<>> /\ delivery.kind = "result")
            /\ Tracked => Entries({"get_product_from_json"}) # <<>>
            /\ (Tracked /\ delivery.before # <<>>) =>
                   (Sends # <<>> /\ delivery.kind = "result")
            /\ \A k \in 1..Len(Sends) :
                   /\ Sends[k].node = "None"
                   /\ Sends[k].text =
                          IF Tracked THEN ReplaceProduct(Rendered, Head(delivery.before))
                          ELSE Rendered

C22_Witness ==
    /\ Tracked
    /\ delivery.kind = "result"
    /\ Entries({"get_node_id_by_username"})[1].res = "None"
    /\ Len(Sends) = 3
    /\ Sends[3].node = "None"
    /\ Sends[3].text = <<"Your", "key:", "K1">>

\* the calls of send_response of the current event
Attempts == Entries({"send_response"})

\* the log entry before the k-th call of send_response returned: its send_message
SendOf(k) ==
    LET at == CHOOSE i \in 1..Len(log) :
                  /\ log[i].op = "send_response"
                  /\ Len(SelectSeq(SubSeq(log, 1, i), LAMBDA e : e.op = "send_response")) = k
    IN  IF at > 1 /\ log[at - 1].op = "send_message" THEN log[at - 1].res
        ELSE IF at > 2 /\ log[at - 1].op = "last_messages" THEN log[at - 2].res
        ELSE "none"

\* C23: send_response_handler calls send_response at most 3 times for a
\* command; an attempt that raises, one answered with an error and one answered
\* without a response body all count as failed; no attempt follows the first
\* success, and after 3 failed attempts the handler returns without raising.
C23_BoundedResponseAttempts ==
    Event = "NEW_MESSAGE" =>
        /\ Len(Attempts) <= 3
        /\ \A k \in 1..(Len(Attempts) - 1) : Attempts[k].res # "True"
        /\ \A k \in 1..Len(Attempts) :
               /\ Attempts[k].res = "True" <=> SendOf(k) = "ok"
               /\ SendOf(k) \in {"error", "empty"} => Attempts[k].res = "False"
               /\ SendOf(k) \in {"raise", "lost"} => Attempts[k].res = "raise"
        /\ (Attempts # <<>> /\ Attempts[Len(Attempts)].res # "True") =>
               Len(Attempts) = 3
        /\ HasRun("send_response_handler") => Returns("send_response_handler")

C23_Witness ==
    /\ finished.kind = "NEW_MESSAGE"
    /\ Len(Attempts) = 3
    /\ SendOf(1) = "raise"
    /\ SendOf(2) = "empty"
    /\ SendOf(3) = "error"
    /\ Attempts[3].res = "False"
    /\ Returns("send_response_handler")

\* the calls of get_user_lots_info and of change_lot_state of the current event
Fetches == Entries({"get_user_lots_info"})

Activations == Entries({"change_lot_state"})

\* the lots Cardinal knows that are not in the listing, in Cardinal's order
Missing(listing) ==
    SelectSeq(lots, LAMBDA l : \A i \in 1..Len(listing) : listing[i] # l.id)

\* the listing was fetched
Fetched == Fetches # <<>> /\ Fetches[Len(Fetches)].res = "ok"

\* C24: with autoRestore on and the listing fetched, the sweep calls
\* change_lot_state once for each lot Cardinal knows that is not in the
\* listing and for no lot that is in it, and goes on to the next lot after an
\* activation that failed.
C24_SweepActivatesMissingLots ==
    Fetched =>
        LET missing == Missing(Fetches[Len(Fetches)].text)
        IN  /\ main_config.autoRestore = 1
            /\ Len(Activations) = Len(missing)
            /\ \A k \in 1..Len(missing) :
                   /\ Activations[k].text = <<missing[k].id>>
                   /\ Activations[k].node = missing[k].game_id

C24_Witness ==
    /\ Fetched
    /\ Fetches[Len(Fetches)].text = <<>>
    /\ Len(Activations) = 2
    /\ Activations[1].res = "raise"
    /\ Activations[2].text = <<"l2">>

\* C25: the sweep fetches the listing at most 3 times and stops at the first
\* success; when the 3 fetches fail it activates no lot and returns normally,
\* and when the first, second or third fetch succeeds it goes on with the
\* listing.
C25_BoundedFetch ==
    Event = "ORDERS_UPDATE" =>
        /\ Len(Fetches) <= 3
        /\ \A k \in 1..(Len(Fetches) - 1) : Fetches[k].res = "raise"
        /\ (HasRun("updates_lots_state_handler") /\ main_config.autoRestore = 1) =>
               /\ Fetches # <<>>
               /\ Returns("updates_lots_state_handler")
               /\ ~Fetched => (Len(Fetches) = 3 /\ Activations = <<>>)
               /\ Fetched =>
                      Len(Activations) = Len(Missing(Fetches[Len(Fetches)].text))

C25_Witness ==
    /\ finished.kind = "ORDERS_UPDATE"
    /\ Len(Fetches) = 3
    /\ Fetches[3].res = "ok"
    /\ Fetches[3].text = <<"l2">>
    /\ Len(Activations) = 1

\* a step starts a notification thread: the handler returns in the same step
ThreadStarted ==
    inflight' > inflight =>
        /\ Len(stack') = Len(stack)
        /\ stack'[Len(stack)].idx = stack[Len(stack)].idx + 1
        /\ Len(stack) \notin stack'[Len(stack)].raised
        /\ loop' = loop

\* a notification thread ends, sent or not: nothing else changes
ThreadEnded ==
    inflight' < inflight =>
        UNCHANGED <<loop, stack, finished, contained, log, products, delivery>>

\* C26: a notification is sent by a thread of its own: the handler that starts
\* it returns without waiting for it, and the end of the thread, sent or
\* failed, changes nothing of the dispatch; a notification may still be in
\* flight when the dispatch of the next event begins.
C26_NotificationsAreDetached == [][ThreadStarted /\ ThreadEnded]_vars

C26_Witness ==
    /\ inflight > 0
    /\ Len(stack) = 1
    /\ stack[1].idx = 1
    /\ log = <<>>

\* C27: for an order with autoDelivery on and a matching section the DELIVERY
\* handlers are dispatched exactly once, after the last send attempt and after
\* the product was put back, and no dispatch of a failure follows one of a
\* success.
C27_OneDeliveryDispatch ==
    delivery.kind \in {"result", "raise"} =>
        LET runs == Entries({"run_handlers"})
        IN  /\ Len(runs) = 1
            /\ log[Len(log)].op \in {"run_handlers", "notify"}
            /\ \A k \in 1..Len(log) :
                   log[k].op \in DeliveryOps =>
                       \E j \in (k + 1)..Len(log) : log[j].op = "run_handlers"
            /\ runs[1].res = (IF delivery.kind = "result" /\ delivery.result
                              THEN "delivered" ELSE "errored")
            /\ stack # <<>> =>
                   Len(SelectSeq(stack, LAMBDA f : f.kind = "DELIVERY"))
                       + (IF finished.kind = "DELIVERY" THEN 1 ELSE 0) = 1

C27_Witness ==
    /\ Tracked
    /\ delivery.kind = "result"
    /\ ~delivery.result
    /\ Entries({"add_product_to_json"}) # <<>>
    /\ finished.kind = "DELIVERY"
    /\ stack # <<>>

\* C28: with AutoResponse on, every message that passes the command gate of
\* send_response_handler, in any letter case and with any white space around
\* it, gets at least one send_message with the response of its command: the
\* key of the response exists whenever the gate was passed.
C28_GatePassedMeansKeyExists ==
    (Event = "NEW_MESSAGE" /\ main_config.AutoResponse = 1
         /\ HasRun("send_response_handler")
         /\ IsCommand(EventFrame.args[1].msg)) =>
        LET msg == EventFrame.args[1].msg
        IN  /\ Sends # <<>>
            /\ \A k \in 1..Len(Sends) :
                   Sends[k].text =
                       format_msg_text(ResponseTemplate(Lower(Strip(msg.message_text))), msg)
            /\ \A k \in 1..Len(Attempts) : SendOf(k) # "none"

\* C29: a product is put back only if none of the send attempts that carried
\* it was accepted by FunPay, an attempt that raised after the POST included:
\* no product is both with a buyer and in the file, and the buyer gets the
\* product message at most once per order.
C29_PushBackOnlyIfUnsent ==
    (Tracked /\ delivery.kind = "result") =>
        LET accepted == SelectSeq(Sends, LAMBDA e : e.res \in {"ok", "lost"})
        IN  /\ Entries({"add_product_to_json"}) # <<>> => accepted = <<>>
            /\ Len(accepted) <= 1

====
